---- MODULE Spec2Model ----
(***************************************************************************)
(* RationalGlobalTool of chemtools/conceptual/rational.py: the three       *)
(* parameter rational energy model E(N) = (a0 + a1 N) / (1 + b1 N) fitted  *)
(* to E(n0 - 1), E(n0), E(n0 + 1).                                         *)
(*                                                                         *)
(* Numbers.  Python floats are modelled as exact rationals <<num, den>>    *)
(* in lowest terms with den > 0; float('inf') is <<1, 0>>.  Rounding is    *)
(* not modelled: an equality proved here is an equality of the exact       *)
(* values the floating point computation approximates.  A float division   *)
(* by zero raises ZeroDivisionError, as Python's float division does.      *)
(*                                                                         *)
(* Program.  Under Spec the caller constructs one model from a dictionary  *)
(* and then makes one call: energy, energy_derivative, params, or one of   *)
(* the descriptors the model inherits from BaseGlobalTool.  Under SeqSpec  *)
(* a constructed model is called again and again.  Under LocalSpec a       *)
(* local tool is constructed from its optional arguments and one of its    *)
(* descriptors is read.  Under AlchemicalSpec an AlchemicalTool of         *)
(* chemtools/toolbox/alchem.py is constructed from a molecule and an       *)
(* array of points.  The attributes _n0 and _n_max are set by the base     *)
(* class, BaseGlobalTool.__init__, which is called on line 83.             *)
(***************************************************************************)
EXTENDS Integers, Sequences, FiniteSets, TLC

(***************************************************************************)
(* Bounds of the model.                                                    *)
(***************************************************************************)
\* energies given to the constructor are the integers -MaxE .. MaxE
MaxE == 2
\* electron counts given to the constructor are -1, 1/2, 3/2, 5/2 and 0 .. MaxKey
MaxKey == 3
\* the constructor is given a dictionary of 2 .. MaxLen samples
MaxLen == 3
\* evaluation points are -1/2, 3/2, 0 .. MaxN and +infinity
MaxN == 4
\* integer derivative orders are -1 .. MaxOrder
MaxOrder == 3
\* parameters a0, a1 of the generating functions are -MaxParam .. MaxParam
MaxParam == 4

(***************************************************************************)
(* Exact arithmetic standing for Python's float arithmetic.                *)
(***************************************************************************)
Abs(i) == IF i < 0 THEN -i ELSE i

RECURSIVE GCD(_, _)
GCD(a, b) == IF b = 0 THEN a ELSE GCD(b, a % b)

\* the rational n/d (d # 0) in lowest terms with a positive denominator
Norm(n, d) ==
    LET g == GCD(Abs(n), Abs(d))
        s == IF d < 0 THEN -1 ELSE 1
    IN  <<(s * n) \div g, (s * d) \div g>>

\* float(i) for an integer i
float(i) == <<i, 1>>
Half(k) == Norm(k, 2)
Zero == float(0)
One == float(1)
\* float('inf')
Inf == <<1, 0>>

isinf(x) == x[2] = 0
IsZero(x) == x[1] = 0 /\ x[2] # 0

Neg(x) == <<-x[1], x[2]>>
\* over the least common denominator so that intermediate products stay small
Add(x, y) ==
    LET g == GCD(x[2], y[2])
    IN  Norm(x[1] * (y[2] \div g) + y[1] * (x[2] \div g), (x[2] \div g) * y[2])
Sub(x, y) == Add(x, Neg(y))
\* cross-reduce before multiplying so that intermediate products stay small
Mul(x, y) ==
    LET g1 == GCD(Abs(x[1]), y[2])
        g2 == GCD(Abs(y[1]), x[2])
    IN  Norm((x[1] \div g1) * (y[1] \div g2), (x[2] \div g2) * (y[2] \div g1))
\* x / y for y # 0; the callers raise ZeroDivisionError when y = 0
Div(x, y) == Mul(x, Norm(y[2], y[1]))

\* x < y and x <= y; finite values compare below Inf
Lt(x, y) == x[1] * y[2] < y[1] * x[2]
Le(x, y) == x[1] * y[2] <= y[1] * x[2]

\* x ** k for an integer k >= 0
RECURSIVE Pow(_, _)
Pow(x, k) == IF k <= 0 THEN One ELSE Mul(x, Pow(x, k - 1))

\* math.factorial(k) for k >= 0
RECURSIVE factorial(_)
factorial(k) == IF k <= 1 THEN 1 ELSE k * factorial(k - 1)

(***************************************************************************)
(* Inputs of the constructor: dictionaries {electron count: energy}.       *)
(***************************************************************************)
Keys == {float(-1), Half(1), Half(3), Half(5)} \cup {float(k) : k \in 0 .. MaxKey}
Energies == {float(e) : e \in -MaxE .. MaxE}
Dicts ==
    UNION {[K -> Energies] : K \in {S \in SUBSET Keys :
                                      Cardinality(S) \in 2 .. MaxLen}}

\* None, for an exception or a message, for a number and for a list
None == "None"
NoValue == <<0, 0>>
NoList == <<>>

\* the least element of a non-empty set of numbers
Least(S) == CHOOSE x \in S : \A y \in S : Le(x, y)

\* sorted(dict_energy.keys()): the keys in increasing order
RECURSIVE SortedSet(_)
SortedSet(S) ==
    IF S = {} THEN <<>> ELSE <<Least(S)>> \o SortedSet(S \ {Least(S)})
sorted(d) == SortedSet(DOMAIN d)

(***************************************************************************)
(* RationalGlobalTool.__init__                                             *)
(***************************************************************************)
MsgSamples == "Rational model requires 3 energy values corresponding to positive number of electrons!"
MsgN0 == "Argument n0 cannot be less than one! Given n0={0}"
MsgSpacing_copied == "Argument n0 cannot be less than one! Given n0={0}"
MsgSpacing == "Number of electrons should differ by one!"
MsgMonotonic == "For rational model, the energy values for consecutive number of electrons should be monotonic! E={0}"

\* len(dict_energy) != 3 or not all([key >= 0 for key in dict_energy.keys()])
BadSamples(d) ==
    Cardinality(DOMAIN d) # 3 \/ ~(\A key \in DOMAIN d : Le(Zero, key))

\* n0 = sorted(dict_energy.keys())[1]
RefN0(d) == sorted(d)[2]

\* n0 < 1
BadN0(n0) == Lt(n0, One)

\* sorted(dict_energy.keys()) != [n0 - 1, n0, n0 + 1]
BadSpacing(d, n0) == sorted(d) # <<Sub(n0, One), n0, Add(n0, One)>>

\* energy_m, energy_0, energy_p = [dict_energy[n] for n in sorted(...)]
EnergyTriple(d) == [i \in 1 .. 3 |-> d[sorted(d)[i]]]

\* the check of the comment on line 69: not energy_m > energy_0 > energy_p
BadMonotonic_strict(em, e0, ep) == ~(Lt(e0, em) /\ Lt(ep, e0))

\* not energy_m > energy_0 >= energy_p
BadMonotonic(em, e0, ep) == ~(Lt(e0, em) /\ Le(ep, e0))

\* - (energy_p - 2 * energy_0 + energy_m)
FitNumerator(em, e0, ep) == Neg(Add(Sub(ep, Mul(float(2), e0)), em))

\* (n0 + 1) * energy_p - 2 * n0 * energy_0 + (n0 - 1) * energy_m
FitDenominator(n0, em, e0, ep) ==
    Add(Sub(Mul(Add(n0, One), ep), Mul(Mul(float(2), n0), e0)),
        Mul(Sub(n0, One), em))

\* a1 with the energy at n0 in place of the energy at n0 + 1 in the last term
FitA1_e0(n0, b1, e0, ep) ==
    Add(Mul(Add(One, Mul(b1, n0)), Sub(ep, e0)), Mul(b1, e0))

\* a1 = (1 + b1 * n0) * (energy_p - energy_0) + (b1 * energy_p)
FitA1(n0, b1, e0, ep) ==
    Add(Mul(Add(One, Mul(b1, n0)), Sub(ep, e0)), Mul(b1, ep))

\* a0 = - a1 * n0 + energy_0 * (1 + b1 * n0)
FitA0(n0, a1, b1, e0) ==
    Add(Mul(Neg(a1), n0), Mul(e0, Add(One, Mul(b1, n0))))

\* BaseGlobalTool.__init__(dict_energy, n0, n_max): keeps n0 and n_max
BaseInit(obj, n0, n_max) == [obj EXCEPT !._n0 = n0, !._n_max = n_max]

\* an object on which no attribute is set yet
Blank == [raised |-> None, msg |-> None, _params |-> NoList,
          _n0 |-> NoValue, _n_max |-> NoValue]

Raise(obj, exc, msg) == [obj EXCEPT !.raised = exc, !.msg = msg]

\* the parameter fit and the base class initialisation (lines 75-83)
Fit(d, n0) ==
    LET e == EnergyTriple(d)
        num == FitNumerator(e[1], e[2], e[3])
        den == FitDenominator(n0, e[1], e[2], e[3])
    IN  IF IsZero(den) THEN Raise(Blank, "ZeroDivisionError", None)
        ELSE LET b1 == Div(num, den)
                 a1 == FitA1(n0, b1, e[2], e[3])
                 a0 == FitA0(n0, a1, b1, e[2])
             IN  BaseInit([Blank EXCEPT !._params = <<a0, a1, b1>>], n0, Inf)

\* the constructor testing the spacing before the reference count
__init___spacing_first(d) ==
    IF BadSamples(d) THEN Raise(Blank, "ValueError", MsgSamples)
    ELSE IF BadSpacing(d, RefN0(d)) THEN Raise(Blank, "ValueError", MsgSpacing)
    ELSE IF BadN0(RefN0(d)) THEN Raise(Blank, "ValueError", MsgN0)
    ELSE IF BadMonotonic(EnergyTriple(d)[1], EnergyTriple(d)[2], EnergyTriple(d)[3])
         THEN Raise(Blank, "ValueError", MsgMonotonic)
    ELSE Fit(d, RefN0(d))

\* the whole constructor: the object it leaves, with the exception it raised
__init__(d) ==
    IF BadSamples(d) THEN Raise(Blank, "ValueError", MsgSamples)
    ELSE IF BadN0(RefN0(d)) THEN Raise(Blank, "ValueError", MsgN0)
    ELSE IF BadSpacing(d, RefN0(d)) THEN Raise(Blank, "ValueError", MsgSpacing)
    ELSE IF BadMonotonic(EnergyTriple(d)[1], EnergyTriple(d)[2], EnergyTriple(d)[3])
         THEN Raise(Blank, "ValueError", MsgMonotonic)
    ELSE Fit(d, RefN0(d))

(***************************************************************************)
(* RationalGlobalTool.energy and RationalGlobalTool.energy_derivative      *)
(***************************************************************************)
MsgNegative == "Number of electrons cannot be negativ! n_elec={0}"
MsgOrder == "Argument order should be an integer greater than or equal to 1."

\* evaluation points
Points ==
    {Half(-1), Half(3), Inf} \cup {float(k) : k \in 0 .. MaxN}

\* values given as derivative order: Python ints, floats, a string and a list
Orders ==
    {[type |-> "int", val |-> float(k)] : k \in -1 .. MaxOrder}
    \cup {[type |-> "float", val |-> One], [type |-> "float", val |-> Half(1)],
          [type |-> "str", val |-> One], [type |-> "list", val |-> One]}
IntOrder(k) == [type |-> "int", val |-> float(k)]

\* the result of a call: the exception raised or the value returned, and
\* whether log.warn was called
Result(raised, msg, value, warned) ==
    [raised |-> raised, msg |-> msg, value |-> value, warned |-> warned]

\* n_elec < 0.0
Negative(n_elec) == Lt(n_elec, Zero)

\* the range check with strict comparisons: not n0 - 1 < n_elec < n0 + 1
Outside_open(obj, n_elec) ==
    ~(Lt(Sub(obj._n0, One), n_elec) /\ Lt(n_elec, Add(obj._n0, One)))

\* not self._n0 - 1 <= n_elec <= self._n0 + 1
Outside(obj, n_elec) ==
    ~(Le(Sub(obj._n0, One), n_elec) /\ Le(n_elec, Add(obj._n0, One)))

\* 1 + self._params[2] * n_elec
Denominator(obj, n_elec) == Add(One, Mul(obj._params[3], n_elec))

\* self._params[1] / self._params[2], the value at infinity
EnergyLimit(obj, warned) ==
    IF IsZero(obj._params[3])
    THEN Result("ZeroDivisionError", None, NoValue, warned)
    ELSE Result(None, None, Div(obj._params[2], obj._params[3]), warned)

\* (self._params[0] + self._params[1] * n_elec) / (1 + self._params[2] * n_elec)
EnergyValue(obj, n_elec, warned) ==
    IF IsZero(Denominator(obj, n_elec))
    THEN Result("ZeroDivisionError", None, NoValue, warned)
    ELSE Result(None, None,
                Div(Add(obj._params[1], Mul(obj._params[2], n_elec)),
                    Denominator(obj, n_elec)),
                warned)

energy(obj, n_elec) ==
    IF Negative(n_elec) THEN Result("ValueError", MsgNegative, NoValue, FALSE)
    ELSE IF isinf(n_elec) THEN EnergyLimit(obj, Outside(obj, n_elec))
    ELSE EnergyValue(obj, n_elec, Outside(obj, n_elec))

\* the order check without the isinstance test: not order > 0
BadOrder_untyped(order) == ~Lt(Zero, order.val)

\* not (isinstance(order, int) and order > 0)
BadOrder(order) == ~(order.type = "int" /\ Lt(Zero, order.val))

\* the numerator with b1 in place of -b1
DerivNumerator_unsigned(obj, k) ==
    Mul(Pow(obj._params[3], k - 1),
        Mul(Sub(obj._params[2], Mul(obj._params[1], obj._params[3])),
            float(factorial(k))))

\* deriv = (-b1)**(order - 1); deriv *= (a1 - a0 * b1) * math.factorial(order)
DerivNumerator(obj, k) ==
    Mul(Pow(Neg(obj._params[3]), k - 1),
        Mul(Sub(obj._params[2], Mul(obj._params[1], obj._params[3])),
            float(factorial(k))))

\* the denominator raised to order in place of order + 1
DerivDenominator_order(obj, n_elec, k) == Pow(Denominator(obj, n_elec), k)

\* (1 + self._params[2] * n_elec)**(order + 1)
DerivDenominator(obj, n_elec, k) == Pow(Denominator(obj, n_elec), k + 1)

DerivValue(obj, n_elec, k, warned) ==
    IF IsZero(DerivDenominator(obj, n_elec, k))
    THEN Result("ZeroDivisionError", None, NoValue, warned)
    ELSE Result(None, None,
                Div(DerivNumerator(obj, k), DerivDenominator(obj, n_elec, k)),
                warned)

\* energy_derivative with the order tested before the range
energy_derivative_order_first(obj, n_elec, order) ==
    IF Negative(n_elec) THEN Result("ValueError", MsgNegative, NoValue, FALSE)
    ELSE IF BadOrder(order) THEN Result("ValueError", MsgOrder, NoValue, FALSE)
    ELSE IF isinf(n_elec) THEN Result(None, None, Zero, Outside(obj, n_elec))
    ELSE DerivValue(obj, n_elec, order.val[1], Outside(obj, n_elec))

energy_derivative(obj, n_elec, order) ==
    IF Negative(n_elec) THEN Result("ValueError", MsgNegative, NoValue, FALSE)
    ELSE IF BadOrder(order)
         THEN Result("ValueError", MsgOrder, NoValue, Outside(obj, n_elec))
    ELSE IF isinf(n_elec) THEN Result(None, None, Zero, Outside(obj, n_elec))
    ELSE DerivValue(obj, n_elec, order.val[1], Outside(obj, n_elec))

(***************************************************************************)
(* BaseGlobalTool: the descriptors the model inherits, each computed on    *)
(* demand from energy and energy_derivative.                               *)
(***************************************************************************)
\* the result of an expression of two operands: the first exception raised,
\* else the value, with the warnings of the operands that were evaluated
Both(r1, r2, value) ==
    IF r1.raised # None THEN r1
    ELSE IF r2.raised # None
         THEN Result(r2.raised, r2.msg, NoValue, r1.warned \/ r2.warned)
    ELSE Result(None, None, value, r1.warned \/ r2.warned)

\* x / r for a number x and a result r
Over(x, r) ==
    IF r.raised # None THEN r
    ELSE IF IsZero(r.value)
         THEN Result("ZeroDivisionError", None, NoValue, r.warned)
    ELSE Result(None, None, Div(x, r.value), r.warned)

\* -r for a result r
Minus(r) ==
    IF r.raised # None THEN r ELSE [r EXCEPT !.value = Neg(r.value)]

\* ip, ionization_potential: energy(n0 - 1) - energy(n0)
ionization_potential(obj) ==
    LET em == energy(obj, Sub(obj._n0, One))
        e0 == energy(obj, obj._n0)
    IN  Both(em, e0, Sub(em.value, e0.value))

\* ea, electron_affinity: energy(n0) - energy(n0 + 1)
electron_affinity(obj) ==
    LET e0 == energy(obj, obj._n0)
        ep == energy(obj, Add(obj._n0, One))
    IN  Both(e0, ep, Sub(e0.value, ep.value))

\* chemical potential: the first derivative of the energy at n0
mu(obj) == energy_derivative(obj, obj._n0, IntOrder(1))

\* chemical hardness: the second derivative of the energy at n0
eta(obj) == energy_derivative(obj, obj._n0, IntOrder(2))

\* electronegativity: -mu
electronegativity(obj) == Minus(mu(obj))

\* softness: 1 / eta
softness(obj) == Over(One, eta(obj))

\* x / y ** k for y # 0, dividing k times so that the intermediate
\* quotients stay small
RECURSIVE DivPow(_, _, _)
DivPow(x, y, k) == IF k <= 0 THEN x ELSE DivPow(Div(x, y), y, k - 1)

\* r1 / r2 ** k for two results
Quotient(r1, r2, k) ==
    IF r1.raised # None THEN r1
    ELSE IF r2.raised # None
         THEN Result(r2.raised, r2.msg, NoValue, r1.warned \/ r2.warned)
    ELSE IF IsZero(r2.value)
         THEN Result("ZeroDivisionError", None, NoValue, r1.warned \/ r2.warned)
    ELSE Result(None, None, DivPow(r1.value, r2.value, k),
                r1.warned \/ r2.warned)

\* grand potential as a function of N: energy(N) - N * energy_derivative(N, 1)
grand_potential(obj, n_elec) ==
    LET e == energy(obj, n_elec)
        d == energy_derivative(obj, n_elec, IntOrder(1))
    IN  Both(e, d, Sub(e.value, Mul(n_elec, d.value)))

\* derivatives of the grand potential: -N, -1 / E'', E''' / E''^3 and
\* E'''' / E''^4 - 3 E'''^2 / E''^5
grand_potential_derivative(obj, n_elec, k) ==
    LET d2 == energy_derivative(obj, n_elec, IntOrder(2))
        d3 == energy_derivative(obj, n_elec, IntOrder(3))
        d4 == energy_derivative(obj, n_elec, IntOrder(4))
        first == Quotient(d4, d2, 4)
        \* 3 d3^2 / d2^5 as 3 (d3 / d2^2) (d3 / d2^3)
        second == Quotient(d3, d2, 2)
        third == Quotient(d3, d2, 3)
    IN  CASE k = 1 -> Result(None, None, Neg(n_elec), FALSE)
          [] k = 2 -> Minus(Over(One, d2))
          [] k = 3 -> Quotient(d3, d2, 3)
          [] k = 4 -> Both(first, third,
                           Sub(first.value,
                               Mul(float(3), Mul(second.value, third.value))))

\* the orders at which grand_potential_derivative is called
GrandOrders == 1 .. 3

\* finite electron counts, and electron counts that are not negative
FinitePoints == {n \in Points : ~isinf(n)}
Counts == {n \in Points : Le(Zero, n)}

\* the orders given to hyper_softness
HyperOrders == {o \in Orders : o.type = "int" => Le(o.val, float(3))}

\* not (isinstance(order, int) and order >= 2)
BadHyperOrder(order) == ~(order.type = "int" /\ Le(float(2), order.val))

\* hyper-softness of order 2 and 3 at n0:
\* 3 (1 + b1 n0)^5 / (4 b1 (a1 - a0 b1)^2) and
\* -15 (1 + b1 n0)^7 / (8 b1 (a1 - a0 b1)^3)
hyper_softness(obj, order) ==
    LET den == Denominator(obj, obj._n0)
        b1 == obj._params[3]
        c == Sub(obj._params[2], Mul(obj._params[1], b1))
    IN  IF BadHyperOrder(order)
        THEN Result("ValueError", None, NoValue, FALSE)
        ELSE IF IsZero(Mul(b1, c))
        THEN Result("ZeroDivisionError", None, NoValue, FALSE)
        ELSE IF order.val = float(2)
        THEN Result(None, None,
                    Div(Mul(float(3), Pow(den, 5)),
                        Mul(float(4), Mul(b1, Pow(c, 2)))),
                    FALSE)
        ELSE Result(None, None,
                    Div(Mul(float(-15), Pow(den, 7)),
                        Mul(float(8), Mul(b1, Pow(c, 3)))),
                    FALSE)

\* math.sqrt on the squares of rationals: the root of a perfect square
RECURSIVE Root(_, _)
Root(p, r) == IF r * r >= p THEN r ELSE Root(p, r + 1)
sqrt(x) == <<Root(x[1], 0), Root(x[2], 0)>>

\* convert_mu_to_n(mu): the first derivative (a1 - a0 b1) / (1 + b1 N)^2
\* solved for N, N = (sqrt((a1 - a0 b1) / mu) - 1) / b1 or, when that root
\* is negative, N = (-sqrt((a1 - a0 b1) / mu) - 1) / b1; a domain error
\* when no root is real and not negative
convert_mu_to_n(obj, mu_value) ==
    LET b1 == obj._params[3]
        c == Sub(obj._params[2], Mul(obj._params[1], b1))
        root == sqrt(Div(c, mu_value))
        plus == Div(Sub(root, One), b1)
        minus == Div(Sub(Neg(root), One), b1)
    IN  IF IsZero(mu_value) \/ ~Lt(Zero, Mul(c, mu_value))
        THEN Result("ValueError", None, NoValue, FALSE)
        ELSE IF IsZero(b1)
        THEN IF mu_value = c
             THEN Result("ZeroDivisionError", None, NoValue, FALSE)
             ELSE Result("ValueError", None, NoValue, FALSE)
        ELSE IF Le(Zero, plus) THEN Result(None, None, plus, FALSE)
        ELSE IF Le(Zero, minus) THEN Result(None, None, minus, FALSE)
        ELSE Result("ValueError", None, NoValue, FALSE)

\* chemical potentials given to convert_mu_to_n: the first derivative at
\* the electron counts, those values negated, 0, and four times a1 - a0 b1
Potentials(obj) ==
    LET values == {energy_derivative(obj, n, IntOrder(1)).value :
                      n \in {m \in FinitePoints :
                                energy_derivative(obj, m, IntOrder(1)).raised
                                    = None}}
    IN  values \cup {Neg(v) : v \in values}
            \cup {Zero,
                  Mul(float(4),
                      Sub(obj._params[2], Mul(obj._params[1], obj._params[3])))}

\* the electron count at which the energy stops decreasing, as the
\* constructor gave it
n_max(obj) == Result(None, None, obj._n_max, FALSE)

\* electrophilicity: energy(n0) - energy(n_max)
electrophilicity(obj) ==
    LET e0 == energy(obj, obj._n0)
        emax == energy(obj, obj._n_max)
    IN  Both(e0, emax, Sub(e0.value, emax.value))

\* nucleofugality: energy(n_max) - energy(n0 + 1)
nucleofugality(obj) ==
    LET emax == energy(obj, obj._n_max)
        ep == energy(obj, Add(obj._n0, One))
    IN  Both(emax, ep, Sub(emax.value, ep.value))

\* electrofugality: energy(n0 - 1) - energy(n_max)
electrofugality(obj) ==
    LET em == energy(obj, Sub(obj._n0, One))
        emax == energy(obj, obj._n_max)
    IN  Both(em, emax, Sub(em.value, emax.value))

\* the descriptors read as properties of the model
Properties ==
    {"ip", "ea", "mu", "eta", "electronegativity", "softness",
     "n_max", "electrophilicity", "nucleofugality", "electrofugality"}

Property(obj, name) ==
    CASE name = "ip" -> ionization_potential(obj)
      [] name = "ea" -> electron_affinity(obj)
      [] name = "mu" -> mu(obj)
      [] name = "eta" -> eta(obj)
      [] name = "electronegativity" -> electronegativity(obj)
      [] name = "softness" -> softness(obj)
      [] name = "n_max" -> n_max(obj)
      [] name = "electrophilicity" -> electrophilicity(obj)
      [] name = "nucleofugality" -> nucleofugality(obj)
      [] name = "electrofugality" -> electrofugality(obj)

(***************************************************************************)
(* QuadraticLocalTool: local descriptors composed from the Fukui arrays    *)
(* ff_plus and ff_minus and from the scalars of a global tool, each of     *)
(* the three optional.                                                     *)
(***************************************************************************)
\* number of grid points of the longest array
MaxPoints == 2

\* an argument that was not given, and an array that was
NoArray == [is_none |-> TRUE, array |-> <<>>]
Array(a) == [is_none |-> FALSE, array |-> a]

\* values of a Fukui function at a grid point
FukuiValues == {Half(-3), Half(1), float(2)}
Grids == UNION {[1 .. n -> FukuiValues] : n \in 1 .. MaxPoints}

\* ff_plus and ff_minus as given: none, one of them, or two arrays on the
\* same grid
FukuiPairs ==
    {<<NoArray, NoArray>>}
        \cup {<<Array(a), NoArray>> : a \in Grids}
        \cup {<<NoArray, Array(a)>> : a \in Grids}
        \cup {<<Array(p[1]), Array(p[2])>> :
                 p \in {q \in Grids \X Grids : Len(q[1]) = Len(q[2])}}

\* QuadraticGlobalTool(energy_zero, energy_plus, energy_minus): ionization
\* potential, hardness ip - ea and nucleofugality (ip - 3 ea)^2 / (8 (ip - ea))
QuadraticGlobalTool(e0, ep, em) ==
    LET ip == Sub(em, e0)
        ea == Sub(e0, ep)
    IN  [is_none |-> FALSE,
         ip |-> ip,
         eta |-> Sub(ip, ea),
         nucleofugality |->
             Div(Pow(Sub(ip, Mul(float(3), ea)), 2),
                 Mul(float(8), Sub(ip, ea)))]
NoGlobal ==
    [is_none |-> TRUE, ip |-> NoValue, eta |-> NoValue,
     nucleofugality |-> NoValue]

\* the global tools given: none, or a quadratic model with ip # ea
Globals ==
    {NoGlobal}
        \cup {QuadraticGlobalTool(Zero, float(p), float(m)) :
                 p \in {-1, 0}, m \in {2, 3}}

\* QuadraticLocalTool(ff_plus, ff_minus, global_instance)
LocalInit(ff_plus, ff_minus, global_instance) ==
    [ff_plus |-> ff_plus, ff_minus |-> ff_minus,
     global_instance |-> global_instance]
NoLocal == LocalInit(NoArray, NoArray, NoGlobal)

\* ff_zero treating an absent array as an array of zeros
ff_zero_lenient(l) ==
    IF l.ff_plus.is_none /\ l.ff_minus.is_none THEN NoArray
    ELSE IF l.ff_minus.is_none
         THEN Array([i \in DOMAIN l.ff_plus.array |->
                        Div(l.ff_plus.array[i], float(2))])
    ELSE IF l.ff_plus.is_none
         THEN Array([i \in DOMAIN l.ff_minus.array |->
                        Div(l.ff_minus.array[i], float(2))])
    ELSE Array([i \in DOMAIN l.ff_plus.array |->
                   Div(Add(l.ff_plus.array[i], l.ff_minus.array[i]), float(2))])

\* ff_zero = (ff_plus + ff_minus) / 2, None unless both are given
ff_zero(l) ==
    IF l.ff_plus.is_none \/ l.ff_minus.is_none THEN NoArray
    ELSE Array([i \in DOMAIN l.ff_plus.array |->
                   Div(Add(l.ff_plus.array[i], l.ff_minus.array[i]), float(2))])

\* dual_descriptor = ff_plus - ff_minus, None unless both are given
dual_descriptor(l) ==
    IF l.ff_plus.is_none \/ l.ff_minus.is_none THEN NoArray
    ELSE Array([i \in DOMAIN l.ff_plus.array |->
                   Sub(l.ff_plus.array[i], l.ff_minus.array[i])])

\* the Fukui array with the scalar left out
Scaled_unscaled(global_instance, scalar, fukui) == fukui

\* a scalar of the global tool times a Fukui array, None unless both are
\* given
Scaled(global_instance, scalar, fukui) ==
    IF global_instance.is_none \/ fukui.is_none THEN NoArray
    ELSE Array([i \in DOMAIN fukui.array |->
                   Mul(global_instance[scalar], fukui.array[i])])

\* the descriptors read as properties of the local tool
LocalProperties ==
    {"ff_plus", "ff_minus", "ff_zero", "dual_descriptor",
     "ip_plus", "ip_minus", "ip_zero",
     "eta_plus", "eta_minus", "eta_zero",
     "nucleofugality_plus", "nucleofugality_minus", "nucleofugality_zero"}

LocalProperty(l, name) ==
    CASE name = "ff_plus" -> l.ff_plus
      [] name = "ff_minus" -> l.ff_minus
      [] name = "ff_zero" -> ff_zero(l)
      [] name = "dual_descriptor" -> dual_descriptor(l)
      [] name = "ip_plus" -> Scaled(l.global_instance, "ip", l.ff_plus)
      [] name = "ip_minus" -> Scaled(l.global_instance, "ip", l.ff_minus)
      [] name = "ip_zero" -> Scaled(l.global_instance, "ip", ff_zero(l))
      [] name = "eta_plus" -> Scaled(l.global_instance, "eta", l.ff_plus)
      [] name = "eta_minus" -> Scaled(l.global_instance, "eta", l.ff_minus)
      [] name = "eta_zero" -> Scaled(l.global_instance, "eta", ff_zero(l))
      [] name = "nucleofugality_plus"
            -> Scaled(l.global_instance, "nucleofugality", l.ff_plus)
      [] name = "nucleofugality_minus"
            -> Scaled(l.global_instance, "nucleofugality", l.ff_minus)
      [] name = "nucleofugality_zero"
            -> Scaled(l.global_instance, "nucleofugality", ff_zero(l))

(***************************************************************************)
(* AlchemicalTool (toolbox/alchem.py).  The molecule is an external        *)
(* collaborator: its compute_density either returns the density on the     *)
(* points it is given or raises.                                           *)
(***************************************************************************)
\* arrays have 0 .. MaxAxes axes
MaxAxes == 3
\* an axis has 0 .. MaxSize entries
MaxSize == 4

MsgPoints == "Argument points should be a 2D array with 3 columns."

\* np.full(shape, fill_value), and the attribute before it is assigned
full(shape, fill_value) == [is_none |-> FALSE, shape |-> shape, fill |-> fill_value]
NoPoints == [is_none |-> TRUE, shape |-> <<>>, fill |-> 0]

\* points.ndim
ndim(points) == Len(points.shape)

\* the arrays given as points
Shapes == UNION {[1 .. n -> 0 .. MaxSize] : n \in 0 .. MaxAxes}
PointArrays == {full(shape, fill_value) : shape \in Shapes, fill_value \in {0, 1}}

\* the molecules given, and the attribute before it is assigned
Molecules == {"h2o", "ch4"}
NoMolecule == None

\* what molecule.compute_density(points) does: it returns or it raises
Outcomes == {"return", "raise"}

\* the density a molecule returns on the points
Density(molecule, points) ==
    [is_none |-> FALSE, molecule |-> molecule, points |-> points]
NoDensity == [is_none |-> TRUE, molecule |-> NoMolecule, points |-> NoPoints]

\* the tool before __init__ has assigned anything
NoTool == [raised |-> None, msg |-> None, _molecule |-> NoMolecule,
           _points |-> NoPoints, _density |-> NoDensity]

\* one call of compute_density as the molecule receives it
DensityCall(molecule, points) == [molecule |-> molecule, points |-> points]

\* points.ndim != 2 or points.shape[1] != 3
BadPoints(points) == ndim(points) # 2 \/ points.shape[2] # 3

\* self._density = self._molecule.compute_density(self._points)
ComputeDensity(obj, outcome) ==
    [tool |-> IF outcome = "raise"
              THEN [obj EXCEPT !.raised = "Exception"]
              ELSE [obj EXCEPT !._density = Density(obj._molecule, obj._points)],
     calls |-> <<DensityCall(obj._molecule, obj._points)>>]

\* __init__ with the density computed before the points are tested
AlchemicalTool_compute_first(molecule, points, outcome) ==
    LET done == ComputeDensity([NoTool EXCEPT !._molecule = molecule,
                                              !._points = points], outcome)
    IN  IF done.tool.raised # None THEN done
        ELSE IF BadPoints(points)
             THEN [tool |-> Raise(NoTool, "ValueError", MsgPoints),
                   calls |-> done.calls]
        ELSE done

\* AlchemicalTool.__init__: the tool, or the exception raised, and the
\* calls of compute_density made on the way
AlchemicalTool(molecule, points, outcome) ==
    IF BadPoints(points)
    THEN [tool |-> Raise(NoTool, "ValueError", MsgPoints), calls |-> <<>>]
    ELSE ComputeDensity([NoTool EXCEPT !._molecule = molecule,
                                       !._points = points], outcome)

\* AlchemicalTool.from_molecule: return cls(molecule, points)
from_molecule(molecule, points, outcome) ==
    AlchemicalTool(molecule, points, outcome)

(***************************************************************************)
(* The program: a model is constructed from a dictionary, then called      *)
(* once.                                                                   *)
(***************************************************************************)
VARIABLES
    pc,           \* "new", then "built" or "failed", then "called"; for the
                  \* local tool "new", then "local", then "read"; for the
                  \* alchemical tool "new", then "made" or "refused"
    dict_energy,  \* the argument of the constructor
    self,         \* the object: its attributes, and what the constructor raised
    call,         \* the last evaluation call: its arguments and its result
    log,          \* number of warnings written to the log
    loc,          \* the local tool: the arguments it was constructed from
    given,        \* the arguments the alchemical tool is constructed from
    tool,         \* the alchemical tool: its attributes, and what was raised
    computed      \* the calls of compute_density the molecules received

vars == <<pc, dict_energy, self, call, log, loc, given, tool, computed>>

NoOrder == [type |-> "none", val |-> NoValue]
NoCall == [op |-> None, n_elec |-> NoValue, order |-> NoOrder,
           result |-> Result(None, None, NoValue, FALSE)]

Init ==
    /\ pc = "new"
    /\ dict_energy = <<>>
    /\ self = Blank
    /\ call = NoCall
    /\ log = 0
    /\ loc = NoLocal
    /\ given = [molecule |-> NoMolecule, points |-> NoPoints]
    /\ tool = NoTool
    /\ computed = <<>>

\* model = RationalGlobalTool(d)
Construct ==
    /\ pc = "new"
    /\ \E d \in Dicts :
        /\ dict_energy' = d
        /\ self' = __init__(d)
        /\ pc' = IF __init__(d).raised = None THEN "built" ELSE "failed"
    /\ UNCHANGED <<call, log, loc, given, tool, computed>>

Logged(r) == IF r.warned THEN 1 ELSE 0

\* energy keeping the count it was called with as the reference count
Energy_storing ==
    /\ pc = "built"
    /\ \E n_elec \in Points :
        /\ call' = [op |-> "energy", n_elec |-> n_elec, order |-> NoOrder,
                    result |-> energy(self, n_elec)]
        /\ log' = log + Logged(energy(self, n_elec))
        /\ self' = [self EXCEPT !._n0 = n_elec]
    /\ pc' = "called"
    /\ UNCHANGED <<dict_energy, loc, given, tool, computed>>

\* model.energy(n_elec)
Energy ==
    /\ pc = "built"
    /\ \E n_elec \in Points :
        /\ call' = [op |-> "energy", n_elec |-> n_elec, order |-> NoOrder,
                    result |-> energy(self, n_elec)]
        /\ log' = log + Logged(energy(self, n_elec))
    /\ pc' = "called"
    /\ UNCHANGED <<dict_energy, self, loc, given, tool, computed>>

\* model.energy_derivative(n_elec, order)
EnergyDerivative ==
    /\ pc = "built"
    /\ \E n_elec \in Points, order \in Orders :
        /\ call' = [op |-> "energy_derivative", n_elec |-> n_elec, order |-> order,
                    result |-> energy_derivative(self, n_elec, order)]
        /\ log' = log + Logged(energy_derivative(self, n_elec, order))
    /\ pc' = "called"
    /\ UNCHANGED <<dict_energy, self, loc, given, tool, computed>>

\* model.mu, model.eta, ...: a descriptor is read
ReadProperty ==
    /\ pc = "built"
    /\ \E name \in Properties :
        /\ call' = [op |-> name, n_elec |-> NoValue, order |-> NoOrder,
                    result |-> Property(self, name)]
        /\ log' = log + Logged(Property(self, name))
    /\ pc' = "called"
    /\ UNCHANGED <<dict_energy, self, loc, given, tool, computed>>

\* model.grand_potential(n_elec)
GrandPotential ==
    /\ pc = "built"
    /\ \E n_elec \in FinitePoints :
        /\ call' = [op |-> "grand_potential", n_elec |-> n_elec,
                    order |-> NoOrder,
                    result |-> grand_potential(self, n_elec)]
        /\ log' = log + Logged(grand_potential(self, n_elec))
    /\ pc' = "called"
    /\ UNCHANGED <<dict_energy, self, loc, given, tool, computed>>

\* model.grand_potential_derivative(n_elec, order)
GrandPotentialDerivative ==
    /\ pc = "built"
    /\ \E n_elec \in Counts, k \in GrandOrders :
        /\ call' = [op |-> "grand_potential_derivative", n_elec |-> n_elec,
                    order |-> IntOrder(k),
                    result |-> grand_potential_derivative(self, n_elec, k)]
        /\ log' = log + Logged(grand_potential_derivative(self, n_elec, k))
    /\ pc' = "called"
    /\ UNCHANGED <<dict_energy, self, loc, given, tool, computed>>

\* model.hyper_softness(order)
HyperSoftness ==
    /\ pc = "built"
    /\ \E order \in HyperOrders :
        /\ call' = [op |-> "hyper_softness", n_elec |-> self._n0,
                    order |-> order,
                    result |-> hyper_softness(self, order)]
        /\ log' = log + Logged(hyper_softness(self, order))
    /\ pc' = "called"
    /\ UNCHANGED <<dict_energy, self, loc, given, tool, computed>>

\* model.convert_mu_to_n(mu)
ConvertMuToN ==
    /\ pc = "built"
    /\ \E mu_value \in Potentials(self) :
        /\ call' = [op |-> "convert_mu_to_n", n_elec |-> NoValue,
                    order |-> NoOrder, mu |-> mu_value,
                    result |-> convert_mu_to_n(self, mu_value)]
        /\ log' = log + Logged(convert_mu_to_n(self, mu_value))
    /\ pc' = "called"
    /\ UNCHANGED <<dict_energy, self, loc, given, tool, computed>>

\* model.params
Params ==
    /\ pc = "built"
    /\ call' = [op |-> "params", n_elec |-> NoValue, order |-> NoOrder,
                result |-> Result(None, None, self._params, FALSE)]
    /\ pc' = "called"
    /\ UNCHANGED <<dict_energy, self, log, loc, given, tool, computed>>

Next ==
    \/ Construct
    \/ Energy
    \/ EnergyDerivative
    \/ ReadProperty
    \/ GrandPotential
    \/ GrandPotentialDerivative
    \/ HyperSoftness
    \/ ConvertMuToN
    \/ Params

Spec == Init /\ [][Next]_vars

(***************************************************************************)
(* The local tool: it is constructed from its optional arguments, then     *)
(* one of its descriptors is read.                                         *)
(***************************************************************************)
\* loc = QuadraticLocalTool(ff_plus, ff_minus, global_instance)
ConstructLocal ==
    /\ pc = "new"
    /\ \E pair \in FukuiPairs, global_instance \in Globals :
        loc' = LocalInit(pair[1], pair[2], global_instance)
    /\ pc' = "local"
    /\ UNCHANGED <<dict_energy, self, call, log, given, tool, computed>>

\* loc.ff_plus, loc.ff_zero, loc.ip_plus, ...: a descriptor is read
ReadLocal ==
    /\ pc = "local"
    /\ \E name \in LocalProperties :
        call' = [op |-> name, n_elec |-> NoValue, order |-> NoOrder,
                 result |-> [raised |-> None, msg |-> None,
                             value |-> LocalProperty(loc, name),
                             warned |-> FALSE]]
    /\ pc' = "read"
    /\ UNCHANGED <<dict_energy, self, loc, log, given, tool, computed>>

LocalNext == ConstructLocal \/ ReadLocal

LocalSpec == Init /\ [][LocalNext]_vars

(***************************************************************************)
(* The alchemical tool: it is constructed from a molecule and an array of  *)
(* points, by the constructor or by from_molecule.                         *)
(***************************************************************************)
\* the step of a construction that gave r
Made(op, molecule, points, r) ==
    /\ given' = [molecule |-> molecule, points |-> points]
    /\ tool' = r.tool
    /\ computed' = computed \o r.calls
    /\ call' = [NoCall EXCEPT !.op = op]
    /\ pc' = IF r.tool.raised = None THEN "made" ELSE "refused"
    /\ UNCHANGED <<dict_energy, self, log, loc>>

\* tool = AlchemicalTool(molecule, points)
ConstructAlchemical ==
    /\ pc = "new"
    /\ \E molecule \in Molecules, points \in PointArrays, outcome \in Outcomes :
        Made("__init__", molecule, points,
             AlchemicalTool(molecule, points, outcome))

\* tool = AlchemicalTool.from_molecule(molecule, points)
FromMolecule ==
    /\ pc = "new"
    /\ \E molecule \in Molecules, points \in PointArrays, outcome \in Outcomes :
        Made("from_molecule", molecule, points,
             from_molecule(molecule, points, outcome))

AlchemicalNext == ConstructAlchemical \/ FromMolecule

AlchemicalSpec == Init /\ [][AlchemicalNext]_vars

(***************************************************************************)
(* A constructed model that is called again and again: energy,             *)
(* energy_derivative and params in any order, each call returning to the   *)
(* caller before the next.                                                 *)
(***************************************************************************)
\* number of warnings after which no further call is made
MaxLog == 2

\* the dictionaries the models are constructed from: energies with a pole
\* at N = 4, energies linear in N, and the half-integer counts of the tests
SeqDicts ==
    {d \in Dicts :
        \/ d = (float(0) :> float(1) @@ float(1) :> float(0) @@ float(2) :> float(-2))
        \/ d = (float(1) :> float(1) @@ float(2) :> float(0) @@ float(3) :> float(-1))
        \/ d = (Half(1) :> float(2) @@ Half(3) :> float(0) @@ Half(5) :> float(-1))}

SeqInit ==
    /\ pc = "built"
    /\ dict_energy \in SeqDicts
    /\ self = __init__(dict_energy)
    /\ call = NoCall
    /\ log = 0
    /\ loc = NoLocal
    /\ given = [molecule |-> NoMolecule, points |-> NoPoints]
    /\ tool = NoTool
    /\ computed = <<>>

\* the call has returned or raised, and the caller goes on
Return ==
    /\ pc = "called"
    /\ log < MaxLog
    /\ pc' = "built"
    /\ UNCHANGED <<dict_energy, self, call, log, loc, given, tool, computed>>

SeqNext == Energy \/ EnergyDerivative \/ Params \/ Return

SeqSpec == SeqInit /\ [][SeqNext]_vars

(***************************************************************************)
(* Vocabulary of the properties, stated on the constructor's argument      *)
(* and on the rational function itself.                                    *)
(***************************************************************************)
Constructed == pc \in {"built", "called"}
Failed == pc = "failed"
Called(op) == pc = "called" /\ call.op = op

\* the reference count: the key with exactly one key below it
Middle(d) ==
    CHOOSE n \in DOMAIN d : Cardinality({k \in DOMAIN d : Lt(k, n)}) = 1
UnitSpaced(d) ==
    DOMAIN d = {Sub(Middle(d), One), Middle(d), Add(Middle(d), One)}
EMinus(d) == d[Sub(Middle(d), One)]
EZero(d) == d[Middle(d)]
EPlus(d) == d[Add(Middle(d), One)]

\* the five conditions under which the constructor is to reject its argument
WrongCount(d) == Cardinality(DOMAIN d) # 3
NegativeCount(d) == \E k \in DOMAIN d : Lt(k, Zero)
SmallN0(d) == ~WrongCount(d) /\ Lt(Middle(d), One)
NotUnitSpaced(d) == ~WrongCount(d) /\ ~UnitSpaced(d)
NotMonotonic(d) ==
    /\ ~WrongCount(d)
    /\ UnitSpaced(d)
    /\ ~(Lt(EZero(d), EMinus(d)) /\ Le(EPlus(d), EZero(d)))
Invalid(d) ==
    \/ WrongCount(d)
    \/ NegativeCount(d)
    \/ SmallN0(d)
    \/ NotUnitSpaced(d)
    \/ NotMonotonic(d)

\* (a0 + a1 N) / (1 + b1 N) for parameters p = <<a0, a1, b1>>, where defined
RationalDen(p, n) == Add(One, Mul(p[3], n))
RationalE(p, n) == Div(Add(p[1], Mul(p[2], n)), RationalDen(p, n))

(***************************************************************************)
(* C1.  Round trip of fit and evaluate: on every constructed model,        *)
(* energy at n0 - 1, n0 and n0 + 1 returns the energy given for that       *)
(* count, the case E(n0) = E(n0 + 1) included.                             *)
(***************************************************************************)
C1_RoundTrip ==
    (Called("energy") /\ call.n_elec \in DOMAIN dict_energy)
        => /\ call.result.raised = None
           /\ call.result.value = dict_energy[call.n_elec]

(***************************************************************************)
(* C2.  Construction either raises ValueError or returns a model whose     *)
(* three parameters are defined; an argument that passes validation is     *)
(* always constructed, and no other exception leaves the constructor.      *)
(***************************************************************************)
C2_TwoOutcomes ==
    pc # "new"
        => /\ \/ self.raised = "ValueError" /\ self._params = NoList
              \/ self.raised = None /\ Len(self._params) = 3
           /\ ~Invalid(dict_energy) => self.raised = None

FirstFailed(d) ==
    IF WrongCount(d) THEN "count"
    ELSE IF NegativeCount(d) THEN "negative"
    ELSE IF SmallN0(d) THEN "n0"
    ELSE IF NotUnitSpaced(d) THEN "spacing"
    ELSE "monotonic"

\* one argument failing each condition first
Probes ==
    { float(1) :> float(0) @@ float(2) :> float(-1),
      float(-1) :> float(1) @@ float(0) :> float(0) @@ float(1) :> float(-1),
      float(0) :> float(1) @@ Half(1) :> float(0) @@ float(1) :> float(-1),
      float(1) :> float(1) @@ float(2) :> float(0) @@ Half(5) :> float(-1),
      float(1) :> float(0) @@ float(2) :> float(1) @@ float(3) :> float(2) }

\* what the constructor raises on each probe, and the condition it fails first
ProbeMsg == [p \in Probes |-> __init__(p).msg]
ProbeFirstFailed == [p \in Probes |-> FirstFailed(p)]

C4_FiveDistinct ==
    (Failed /\ self.raised = "ValueError")
        => \A p \in Probes :
              ProbeFirstFailed[p] # FirstFailed(dict_energy)
                  => ProbeMsg[p] # self.msg

\* C4 as amended: the sample count and the sign of the counts are one check
\* with one message; that check, n0 < 1, the spacing and the monotonicity
\* are told apart by their messages.
Check(condition) ==
    IF condition \in {"count", "negative"} THEN "samples" ELSE condition

C4_FourDistinct ==
    (Failed /\ self.raised = "ValueError")
        => \A p \in Probes :
              (Check(ProbeFirstFailed[p]) = Check(FirstFailed(dict_energy)))
                  <=> (ProbeMsg[p] = self.msg)

\* three samples, one of them at a negative count, were rejected
C4_Witness ==
    /\ Failed
    /\ self.raised = "ValueError"
    /\ FirstFailed(dict_energy) = "negative"
    /\ \E p \in Probes : ProbeFirstFailed[p] = "count" /\ ProbeMsg[p] = self.msg

(***************************************************************************)
(* C5.  Parameter recovery: when the three energies are the values of      *)
(* (a0 + a1 N) / (1 + b1 N) at n0 - 1, n0, n0 + 1 for parameters whose     *)
(* denominators do not vanish there, and the argument passes validation,   *)
(* the model is constructed and params is [a0, a1, b1], in that order.     *)
(***************************************************************************)
ParamSpace ==
    {<<float(a0), float(a1), Norm(k, m)>> :
        a0 \in -MaxParam .. MaxParam, a1 \in -MaxParam .. MaxParam,
        k \in -2 .. 2, m \in 1 .. 4}

\* the energies of d are exactly those of the rational function with parameters p
Generates(p, d) ==
    \A n \in DOMAIN d :
        /\ ~IsZero(RationalDen(p, n))
        /\ d[n] = RationalE(p, n)

C5_Recovery ==
    (pc \in {"built", "failed"} /\ ~Invalid(dict_energy))
        => \A p \in ParamSpace :
              Generates(p, dict_energy)
                  => self.raised = None /\ self._params = p

\* a model was fitted to energies generated with b1 # 0
C5_Witness ==
    /\ pc = "built"
    /\ \E p \in ParamSpace :
          /\ ~IsZero(p[3])
          /\ p[1] # p[2]
          /\ Generates(p, dict_energy)
          /\ self._params = p

(***************************************************************************)
(* C6.  energy(N) raises ValueError if and only if N < 0; for every        *)
(* N >= 0, finite or infinite, inside or outside [n0 - 1, n0 + 1], it      *)
(* returns a value, which for finite N is (a0 + a1 N) / (1 + b1 N).        *)
(***************************************************************************)
C6_EnergyTotal ==
    Called("energy")
        => /\ call.result.raised = "ValueError" <=> Lt(call.n_elec, Zero)
           /\ Le(Zero, call.n_elec) => call.result.raised = None
           /\ (Le(Zero, call.n_elec) /\ ~isinf(call.n_elec)
                  /\ ~IsZero(RationalDen(self._params, call.n_elec)))
                 => call.result.value = RationalE(self._params, call.n_elec)

(***************************************************************************)
(* C7.  For N >= 0, energy(N) and energy_derivative(N, order) with a       *)
(* valid order write the out-of-range warning exactly when N < n0 - 1 or   *)
(* N > n0 + 1; N = +infinity is out of range, the endpoints are not.       *)
(***************************************************************************)
PositiveInt(order) ==
    order.type = "int" /\ order.val[2] = 1 /\ order.val[1] >= 1

OutOfRange(d, n) ==
    Lt(n, Sub(Middle(d), One)) \/ Lt(Add(Middle(d), One), n)

C7_Warning ==
    (/\ Called("energy") \/ Called("energy_derivative")
     /\ Le(Zero, call.n_elec)
     /\ call.op = "energy_derivative" => PositiveInt(call.order))
        => /\ call.result.warned <=> OutOfRange(dict_energy, call.n_elec)
           /\ log = 1 <=> OutOfRange(dict_energy, call.n_elec)

\* the energy was evaluated at +infinity and the warning was written
C7_Witness ==
    /\ Called("energy")
    /\ isinf(call.n_elec)
    /\ call.result.warned
    /\ log = 1

(***************************************************************************)
(* C8.  energy_derivative(N, order) raises ValueError when N < 0 or when   *)
(* order is not a positive integer (0, a negative integer, a float, also   *)
(* 1.0, a string, a list); for N >= 0 and an integer order >= 1 it raises  *)
(* no ValueError.                                                          *)
(***************************************************************************)
C8_OrderValidation ==
    Called("energy_derivative")
        => /\ (Lt(call.n_elec, Zero) \/ ~PositiveInt(call.order))
                 => call.result.raised = "ValueError"
           /\ (Le(Zero, call.n_elec) /\ PositiveInt(call.order))
                 => call.result.raised # "ValueError"

\* the order 1.0 was rejected at a valid point
C8_Witness ==
    /\ Called("energy_derivative")
    /\ Le(Zero, call.n_elec)
    /\ call.order = [type |-> "float", val |-> One]
    /\ call.result.raised = "ValueError"
    /\ call.result.msg = MsgOrder

(***************************************************************************)
(* C9.  On a constructed model, for finite N >= 0 with 1 + b1 N # 0 and    *)
(* an integer order n >= 1, energy_derivative(N, n) is                     *)
(* (-b1)^(n-1) (a1 - a0 b1) n! / (1 + b1 N)^(n+1), the n-th derivative of  *)
(* energy: the first derivative times (1 + b1 N)^2 is a1 - a0 b1, it is    *)
(* the slope of energy between N and N + 1 scaled by                       *)
(* (1 + b1 (N + 1)) / (1 + b1 N), and the derivative of order n times      *)
(* (1 + b1 N) is -b1 n times the derivative of order n - 1.                *)
(***************************************************************************)
\* a call of energy_derivative at a finite N >= 0 with a valid order,
\* away from the pole of the model
RegularDerivative ==
    /\ Called("energy_derivative")
    /\ Le(Zero, call.n_elec)
    /\ ~isinf(call.n_elec)
    /\ PositiveInt(call.order)
    /\ ~IsZero(RationalDen(self._params, call.n_elec))

CallOrder == call.order.val[1]
CallDen == RationalDen(self._params, call.n_elec)
\* a1 - a0 b1
Slope(p) == Sub(p[2], Mul(p[1], p[3]))

ClosedForm(p, n, k) ==
    Div(Mul(Mul(Pow(Neg(p[3]), k - 1), Slope(p)), float(factorial(k))),
        Pow(RationalDen(p, n), k + 1))

Docstring(p, n, k, value) ==
    Mul(Mul(value, Pow(RationalDen(p, n), k + 1)), Pow(RationalDen(p, n), k - 1))
        = Mul(Mul(Pow(p[3], k - 1), Slope(p)), float(factorial(k)))

C11_Infinity ==
    /\ (Called("energy") /\ isinf(call.n_elec))
          => /\ call.result.raised = None
             /\ Mul(call.result.value, self._params[3]) = self._params[2]
    /\ (Called("energy_derivative") /\ isinf(call.n_elec) /\ PositiveInt(call.order))
          => /\ call.result.raised = None
             /\ call.result.value = Zero

(***************************************************************************)
(* C12.  On every constructed model mu is energy_derivative(n0, 1), eta    *)
(* is energy_derivative(n0, 2), electronegativity is -mu, and softness     *)
(* is defined and is 1 / eta.                                              *)
(***************************************************************************)
\* the derivative of order k at the reference count, in closed form
AtN0(k) == ClosedForm(self._params, Middle(dict_energy), k)

C12_MuEta ==
    /\ Called("mu")
          => /\ call.result.raised = None
             /\ call.result.value = AtN0(1)
             /\ call.result
                  = energy_derivative(self, Middle(dict_energy), IntOrder(1))
    /\ Called("eta")
          => /\ call.result.raised = None
             /\ call.result.value = AtN0(2)
             /\ call.result
                  = energy_derivative(self, Middle(dict_energy), IntOrder(2))
    /\ Called("electronegativity")
          => /\ call.result.raised = None
             /\ Add(call.result.value, AtN0(1)) = Zero

LessAsymptote(x, y) ==
    Mul(x, self._params[3]) = Sub(Mul(y, self._params[3]), self._params[2])

C13_NMaxDescriptors ==
    /\ Constructed => self._n_max = Inf
    /\ Called("n_max") => call.result.raised = None /\ call.result.value = Inf
    /\ Called("electrophilicity")
          => /\ call.result.raised = None
             /\ LessAsymptote(call.result.value, EZero(dict_energy))
    /\ Called("nucleofugality")
          => /\ call.result.raised = None
             /\ LessAsymptote(Neg(call.result.value), EPlus(dict_energy))
    /\ Called("electrofugality")
          => /\ call.result.raised = None
             /\ LessAsymptote(call.result.value, EMinus(dict_energy))

(***************************************************************************)
(* C14.  On a constructed model, at every finite N >= 0 at which the       *)
(* rational function is defined, grand_potential(N) is                     *)
(* energy(N) - N * energy_derivative(N, 1), and for every N >= 0           *)
(* grand_potential_derivative(N, 1) is -N; both also outside               *)
(* [n0 - 1, n0 + 1].                                                       *)
(***************************************************************************)
\* a call of op at a finite N >= 0 away from the pole of the model
RegularCall(op) ==
    /\ Called(op)
    /\ Le(Zero, call.n_elec)
    /\ ~isinf(call.n_elec)
    /\ ~IsZero(RationalDen(self._params, call.n_elec))

CallCurvature == ClosedForm(self._params, call.n_elec, 2)

Defined == {n \in FinitePoints :
               Le(Zero, n) /\ ~IsZero(RationalDen(self._params, n))}

\* a value returned is a count N >= 0 whose first derivative is mu
ReturnsRoot ==
    call.result.raised = None
        => /\ Le(Zero, call.result.value)
           /\ ~isinf(call.result.value)
           /\ ~IsZero(RationalDen(self._params, call.result.value))
           /\ ClosedForm(self._params, call.result.value, 1) = call.mu
           /\ energy_derivative(self, call.result.value, IntOrder(1)).value
                = call.mu

\* mu = 0 and mu of the sign opposite to a1 - a0 b1 are domain errors
FailsWithoutRoot ==
    (IsZero(call.mu) \/ Lt(Mul(call.mu, Slope(self._params)), Zero))
        => call.result.raised = "ValueError"

Invertible(n) ==
    /\ ~IsZero(self._params[3])
    /\ ~IsZero(Slope(self._params))
    /\ Lt(Zero, RationalDen(self._params, n))

ReadOf(name) == pc = "read" /\ call.op = name

\* the arguments of the local tool a descriptor is computed from
Required(name) ==
    CASE name \in {"ff_plus", "ff_minus"} -> {name}
      [] name \in {"ff_zero", "dual_descriptor"} -> {"ff_plus", "ff_minus"}
      [] name \in {"ip_plus", "eta_plus", "nucleofugality_plus"}
            -> {"ff_plus", "global_instance"}
      [] name \in {"ip_minus", "eta_minus", "nucleofugality_minus"}
            -> {"ff_minus", "global_instance"}
      [] OTHER -> {"ff_plus", "ff_minus", "global_instance"}

C17_AbsentIsNone ==
    pc = "read"
        => /\ call.result.raised = None
           /\ (\E input \in Required(call.op) : loc[input].is_none)
                 => call.result.value = NoArray
           /\ (loc.ff_plus.is_none /\ loc.ff_minus.is_none
                  /\ call.op \in {"ff_plus", "ff_minus", "ff_zero",
                                  "dual_descriptor"})
                 => call.result.value.is_none
           /\ (~loc.ff_plus.is_none /\ loc.ff_minus.is_none)
                 => /\ call.op = "ff_plus" => call.result.value = loc.ff_plus
                    /\ call.op \in {"ff_minus", "ff_zero", "dual_descriptor"}
                          => call.result.value.is_none
           /\ (loc.ff_plus.is_none /\ ~loc.ff_minus.is_none)
                 => /\ call.op = "ff_minus" => call.result.value = loc.ff_minus
                    /\ call.op \in {"ff_plus", "ff_zero", "dual_descriptor"}
                          => call.result.value.is_none

\* ff_zero was read on a local tool that was given ff_plus only
C17_Witness ==
    /\ ReadOf("ff_zero")
    /\ ~loc.ff_plus.is_none
    /\ loc.ff_minus.is_none
    /\ Len(loc.ff_plus.array) = MaxPoints
    /\ call.result.raised = None
    /\ call.result.value.is_none

(***************************************************************************)
(* C18.  When ff_plus, ff_minus (on the same grid) and a global tool are   *)
(* all given, at every grid point i: ff_zero[i] is                         *)
(* (ff_plus[i] + ff_minus[i]) / 2, dual_descriptor[i] is                   *)
(* ff_plus[i] - ff_minus[i], and X_plus, X_minus and X_zero (X one of ip,  *)
(* eta, nucleofugality) are the global scalar X times ff_plus[i],          *)
(* ff_minus[i] and ff_zero[i]; so X_zero[i] is                             *)
(* (X_plus[i] + X_minus[i]) / 2.                                           *)
(***************************************************************************)
AllGiven ==
    /\ ~loc.ff_plus.is_none
    /\ ~loc.ff_minus.is_none
    /\ ~loc.global_instance.is_none

\* the value read is the array with value(i) at every grid point i
IsArray(value(_)) ==
    /\ ~call.result.value.is_none
    /\ DOMAIN call.result.value.array = DOMAIN loc.ff_plus.array
    /\ \A i \in DOMAIN loc.ff_plus.array : call.result.value.array[i] = value(i)

Plus(i) == loc.ff_plus.array[i]
Minus_(i) == loc.ff_minus.array[i]
Mean(i) == Div(Add(Plus(i), Minus_(i)), float(2))

LocalOf(scalar) ==
    LET X == loc.global_instance[scalar]
        XPlus(i) == Mul(X, Plus(i))
        XMinus(i) == Mul(X, Minus_(i))
        XZero(i) == Mul(X, Mean(i))
        XMean(i) == Div(Add(LocalProperty(loc, scalar \o "_plus").array[i],
                            LocalProperty(loc, scalar \o "_minus").array[i]),
                        float(2))
    IN  /\ ReadOf(scalar \o "_plus") => IsArray(XPlus)
        /\ ReadOf(scalar \o "_minus") => IsArray(XMinus)
        /\ ReadOf(scalar \o "_zero") => IsArray(XZero) /\ IsArray(XMean)

C18_LocalProducts ==
    (pc = "read" /\ AllGiven)
        => /\ call.result.raised = None
           /\ ReadOf("ff_zero") => IsArray(Mean)
           /\ ReadOf("dual_descriptor")
                 => IsArray(LAMBDA i : Sub(Plus(i), Minus_(i)))
           /\ \A scalar \in {"ip", "eta", "nucleofugality"} : LocalOf(scalar)

\* the local nucleofugality of ff_zero was read on the longest grid, with
\* ff_plus and ff_minus different
C18_Witness ==
    /\ ReadOf("nucleofugality_zero")
    /\ AllGiven
    /\ Len(loc.ff_plus.array) = MaxPoints
    /\ loc.ff_plus # loc.ff_minus
    /\ IsArray(LAMBDA i : Mul(loc.global_instance.nucleofugality, Mean(i)))
    /\ \A i \in DOMAIN loc.ff_plus.array : ~IsZero(call.result.value.array[i])

(***************************************************************************)
(* C19.  The model is immutable after construction: after any sequence of  *)
(* calls of energy and energy_derivative and reads of params, returning,   *)
(* warning or raising, the parameters, n0 and n_max are those the          *)
(* constructor left, so a call returns what the same call returns on the   *)
(* model as constructed, whatever was called before.                       *)
(***************************************************************************)
\* the model as the constructor left it
AsConstructed == __init__(dict_energy)

C19_Immutable ==
    /\ self._params = AsConstructed._params
    /\ self._n0 = AsConstructed._n0
    /\ self._n_max = AsConstructed._n_max
    /\ pc = "called"
          => /\ call.op = "energy"
                   => call.result = energy(AsConstructed, call.n_elec)
             /\ call.op = "energy_derivative"
                   => call.result
                        = energy_derivative(AsConstructed, call.n_elec, call.order)
             /\ call.op = "params"
                   => call.result.value = AsConstructed._params

\* a call raised ValueError after two calls that wrote the warning
C19_Witness ==
    /\ pc = "called"
    /\ log = MaxLog
    /\ call.op = "energy_derivative"
    /\ call.result.raised = "ValueError"
    /\ Len(self._params) = 3
    /\ self = AsConstructed

(***************************************************************************)
(* C20.  The constructor makes its checks in a fixed order and reports     *)
(* the first that fails: (1) three samples and no negative count,          *)
(* (2) n0 >= 1, (3) counts unit spaced around n0, (4) energies monotonic.  *)
(* An argument failing several of them is rejected with the message of     *)
(* the earliest, and on a rejected argument no parameter is set and the    *)
(* base class is not initialised.                                          *)
(***************************************************************************)
\* the checks an argument fails, each taken by itself where it is defined
Fails(d) ==
    (IF WrongCount(d) \/ NegativeCount(d) THEN {1} ELSE {})
        \cup (IF Lt(Middle(d), One) THEN {2} ELSE {})
        \cup (IF ~WrongCount(d) /\ ~UnitSpaced(d) THEN {3} ELSE {})
        \cup (IF NotMonotonic(d) THEN {4} ELSE {})

Earliest(S) == CHOOSE i \in S : \A j \in S : i <= j

CheckMsg == <<MsgSamples, MsgN0, MsgSpacing, MsgMonotonic>>

C20_CheckOrder ==
    /\ (pc # "new" /\ Fails(dict_energy) # {})
          => /\ self.raised = "ValueError"
             /\ self.msg = CheckMsg[Earliest(Fails(dict_energy))]
             /\ self._params = NoList
             /\ self._n0 = NoValue
             /\ self._n_max = NoValue
    /\ (pc # "new" /\ self.raised = "ValueError") => Fails(dict_energy) # {}
    /\ (pc # "new" /\ self._n0 # NoValue)
          => Fails(dict_energy) = {} /\ Len(self._params) = 3

\* an argument with n0 < 1 and counts that are not unit spaced was
\* rejected for its reference count
C20_Witness ==
    /\ Failed
    /\ {2, 3} \subseteq Fails(dict_energy)
    /\ 1 \notin Fails(dict_energy)
    /\ self.msg = MsgN0
    /\ self._params = NoList

(***************************************************************************)
(* C21.  energy_derivative tests N < 0 first, then writes the out-of-range *)
(* warning, then tests the order.  A call with N < 0 raises ValueError     *)
(* and writes no warning whatever the order is; a call with N >= 0 and an  *)
(* invalid order raises ValueError and has written the warning exactly     *)
(* when N is outside [n0 - 1, n0 + 1].  So a failing call can leave a      *)
(* line in the log.                                                        *)
(***************************************************************************)
DerivativeCall ==
    pc = "built" /\ pc' = "called" /\ call'.op = "energy_derivative"

C21_WarningBeforeOrder ==
    [][DerivativeCall =>
         /\ Lt(call'.n_elec, Zero)
               => /\ call'.result.raised = "ValueError"
                  /\ call'.result.msg = MsgNegative
                  /\ ~call'.result.warned
                  /\ log' = log
         /\ (Le(Zero, call'.n_elec) /\ ~PositiveInt(call'.order))
               => /\ call'.result.raised = "ValueError"
                  /\ call'.result.msg = MsgOrder
                  /\ call'.result.warned <=> OutOfRange(dict_energy, call'.n_elec)
                  /\ log' = log + (IF OutOfRange(dict_energy, call'.n_elec)
                                   THEN 1 ELSE 0)]_vars

\* a call at a finite point above n0 + 1 with the order 0 failed for its
\* order after the warning was written
C21_Witness ==
    /\ Called("energy_derivative")
    /\ Lt(Add(Middle(dict_energy), One), call.n_elec)
    /\ ~isinf(call.n_elec)
    /\ call.order = IntOrder(0)
    /\ call.result.raised = "ValueError"
    /\ call.result.msg = MsgOrder
    /\ call.result.warned
    /\ log = 1

(***************************************************************************)
(* C22.  AlchemicalTool tests its points before it touches the molecule.   *)
(* Points that are not a 2-dimensional array with exactly 3 columns make   *)
(* the constructor, called directly or by from_molecule, raise ValueError  *)
(* with no call of compute_density.  With valid points compute_density is  *)
(* called exactly once, on the given molecule with the given points, and   *)
(* the tool keeps the given molecule and points.                           *)
(***************************************************************************)
\* a 2-dimensional array with exactly 3 columns
ValidPoints(points) == Len(points.shape) = 2 /\ points.shape[2] = 3

C22_PointsFirst ==
    pc \in {"made", "refused"}
        => /\ ~ValidPoints(given.points)
                 => /\ pc = "refused"
                    /\ tool.raised = "ValueError"
                    /\ tool.msg = MsgPoints
                    /\ computed = <<>>
                    /\ tool._density = NoDensity
           /\ ValidPoints(given.points)
                 => /\ tool.msg # MsgPoints
                    /\ computed = <<DensityCall(given.molecule, given.points)>>
                    /\ tool._molecule = given.molecule
                    /\ tool._points = given.points
                    /\ pc = "made"
                          => tool._density = Density(given.molecule, given.points)

\* from_molecule was given an array of two rows and four columns and
\* raised ValueError before any density was computed
C22_Witness ==
    /\ pc = "refused"
    /\ call.op = "from_molecule"
    /\ given.points.shape = <<2, 4>>
    /\ tool.raised = "ValueError"
    /\ computed = <<>>

(***************************************************************************)
(* C23.  On every constructed model the global descriptors agree with the  *)
(* validated energies: ip = energy(n0 - 1) - energy(n0) has a value and    *)
(* is strictly positive, ea = energy(n0) - energy(n0 + 1) has a value and  *)
(* is not negative, electrophilicity + nucleofugality = ea, and            *)
(* electrofugality - electrophilicity = ip.                                *)
(***************************************************************************)
HasValue(r) == r.raised = None

C23_DescriptorsConsistent ==
    Constructed
        => /\ HasValue(ionization_potential(self))
           /\ Lt(Zero, ionization_potential(self).value)
           /\ HasValue(electron_affinity(self))
           /\ Le(Zero, electron_affinity(self).value)
           /\ HasValue(electrophilicity(self))
           /\ HasValue(nucleofugality(self))
           /\ Add(electrophilicity(self).value, nucleofugality(self).value)
                 = electron_affinity(self).value
           /\ HasValue(electrofugality(self))
           /\ Sub(electrofugality(self).value, electrophilicity(self).value)
                 = ionization_potential(self).value

====
